---------------------------- MODULE Spec2Model ----------------------------
(***************************************************************************)
(* Model of src/beta.py: the weekly piano-practice reconciliation run of   *)
(* process_data.  The roster is loaded line by line (parse_member_list),   *)
(* the practice log is scanned line by line (parse_practice_records), then *)
(* calculate_statistics, find_non_compliant_members,                       *)
(* generate_warning_message and the grid-building loop of process_data run *)
(* in that order.                                                          *)
(*                                                                         *)
(* A text line is modelled by what the code's tests on it yield: whether   *)
(* it is blank after strip(), what the regular expressions capture, how    *)
(* many tab separated fields it has, whether int() accepts its id field.   *)
(* Digit strings captured by the date-header pattern are sequences of      *)
(* digits, so that "03" and "3" are different labels with the same int().  *)
(* A member's name and city and a row's total_hours are copied through by  *)
(* the code and read by no step modelled here; they are left out.          *)
(***************************************************************************)
EXTENDS Integers, Sequences, FiniteSets, TLC

(***************************************************************************)
(* Bounds of the model.                                                    *)
(***************************************************************************)
MaxRosterLines == 3
MaxLogLines == 3

(***************************************************************************)
(* Program constants.                                                      *)
(***************************************************************************)
MinMinutes == 120
MinDays == 2
days_in_month == 31
WindowDays == 7

(***************************************************************************)
(* Input alphabets.                                                        *)
(***************************************************************************)
MemberIds == {1, 2, 3}
FewMemberIds == {1, 2}
MinuteValues == {19, 100, 120}
NoDigits == << >>
\* "03月20日", "3月25日", "3月29日", "4月2日" as captured digit strings.
HeaderDates ==
    { <<<<0, 3>>, <<2, 0>>>>, <<<<3>>, <<2, 5>>>>, <<<<3>>, <<2, 9>>>>, <<<<4>>, <<2>>>> }
\* 20250317 and 20250328 as <<int(start_date[4:6]), int(start_date[6:8])>>.
StartDates == { <<3, 17>>, <<3, 28>> }

\* A roster line after strip() and split on tab: blank, the number of
\* fields, whether int() accepts field 0, its value, and field 3.
RosterLine(blank, nparts, idOk, id, status) ==
    [blank |-> blank, nparts |-> nparts, idOk |-> idOk, id |-> id, status |-> status]

BlankRosterLine == RosterLine(TRUE, 0, FALSE, 0, "")
ShortRosterLine == RosterLine(FALSE, 2, TRUE, 1, "")
BadIdRosterLine == RosterLine(FALSE, 3, FALSE, 0, "")

ValidRosterLines(ids) ==
    { RosterLine(FALSE, 3, TRUE, i, "") : i \in ids }
      \cup { RosterLine(FALSE, 4, TRUE, i, "leave") : i \in ids }

RosterLines ==
    ValidRosterLines(MemberIds) \cup { BlankRosterLine, ShortRosterLine, BadIdRosterLine }

\* A log line after strip(): blank, the captures of the date-header pattern
\* (hdr, hm, hd), startswith('#'), the presence of the example marker, and
\* the captures of the record grammar (rec, id, minutes, content).
LogLine(blank, hdr, hm, hd, hash, ex, rec, id, minutes, content) ==
    [blank |-> blank, hdr |-> hdr, hm |-> hm, hd |-> hd, hash |-> hash,
     ex |-> ex, rec |-> rec, id |-> id, minutes |-> minutes, content |-> content]

BlankLogLine == LogLine(TRUE, FALSE, NoDigits, NoDigits, FALSE, FALSE, FALSE, 0, 0, "")
CommentLine == LogLine(FALSE, FALSE, NoDigits, NoDigits, TRUE, FALSE, FALSE, 0, 0, "")
ExampleLine == LogLine(FALSE, FALSE, NoDigits, NoDigits, FALSE, TRUE, FALSE, 0, 0, "")
GarbageLine == LogLine(FALSE, FALSE, NoDigits, NoDigits, FALSE, FALSE, FALSE, 0, 0, "")
HeaderLine(m, d) == LogLine(FALSE, TRUE, m, d, FALSE, FALSE, FALSE, 0, 0, "")
RecordLine(id, minutes) == LogLine(FALSE, FALSE, NoDigits, NoDigits, FALSE, FALSE, TRUE, id, minutes, "etude")
\* A line that matches the record grammar and whose content holds the
\* example marker.
ExampleRecordLine == LogLine(FALSE, FALSE, NoDigits, NoDigits, FALSE, TRUE, TRUE, 1, 120, "etude")

HeaderLines == { HeaderLine(h[1], h[2]) : h \in HeaderDates }
RecordLines(ids) == { RecordLine(i, m) : i \in ids, m \in MinuteValues }

\* Every kind of log line, for the scanner.
LogLines ==
    HeaderLines \cup RecordLines(FewMemberIds)
      \cup { BlankLogLine, CommentLine, ExampleLine, GarbageLine, ExampleRecordLine }

\* Dated records, for the grid.
DatedLogLines == HeaderLines \cup RecordLines(FewMemberIds) \cup { ExampleRecordLine }

(***************************************************************************)
(* State.                                                                  *)
(***************************************************************************)
VARIABLES
    pc,              \* position of process_data
    roster_lines,    \* roster lines consumed so far by parse_member_list
    log_lines,       \* log lines consumed so far by parse_practice_records
    members,         \* the dict id -> Member, in insertion order
    current_date,    \* the scanner's current date label
    warnings,        \* diagnostics printed by the two parsers, in order
    stats,           \* result of calculate_statistics
    non_compliant,   \* result of find_non_compliant_members
    message_ids,     \* ids as joined into the warning message
    start,           \* <<start_month, start_day_int>>
    excel_data       \* rows built by process_data

vars == <<pc, roster_lines, log_lines, members, current_date, warnings,
          stats, non_compliant, message_ids, start, excel_data>>

\* The date label "" (before any header) and "M月D日".
NoLabel == [m |-> NoDigits, d |-> NoDigits]
Label(m, d) == [m |-> m, d |-> d]

(***************************************************************************)
(* The dict of members: a sequence of entries, keys unique.                *)
(***************************************************************************)
Member(id, status) == [id |-> id, status |-> status, practice_records |-> << >>]

KeyIndex(dict, id) ==
    IF \E i \in 1..Len(dict) : dict[i].id = id
    THEN CHOOSE i \in 1..Len(dict) : dict[i].id = id
    ELSE 0

HasKey(dict, id) == KeyIndex(dict, id) # 0

\* members[member_id] = value: a new key is appended, an existing key keeps
\* its position and takes the new value.
DictSet(dict, value) ==
    IF HasKey(dict, value.id)
    THEN [dict EXCEPT ![KeyIndex(dict, value.id)] = value]
    ELSE Append(dict, value)

(***************************************************************************)
(* parse_member_list: one iteration of the loop over lines[2:].            *)
(***************************************************************************)
ParseMemberLine(dict, line) ==
    IF line.blank THEN dict
    ELSE IF line.nparts >= 3
    THEN IF line.idOk
         THEN DictSet(dict, Member(line.id, IF line.nparts > 3 THEN line.status ELSE ""))
         ELSE dict
    ELSE dict

MemberLineWarnings(line) ==
    IF ~line.blank /\ line.nparts >= 3 /\ ~line.idOk
    THEN << "could_not_parse_member_id" >>
    ELSE << >>

LoadRosterLine(alphabet) ==
    /\ pc = "roster"
    /\ Len(roster_lines) < MaxRosterLines
    /\ \E line \in alphabet :
        /\ roster_lines' = Append(roster_lines, line)
        /\ members' = ParseMemberLine(members, line)
        /\ warnings' = warnings \o MemberLineWarnings(line)
    /\ UNCHANGED <<pc, log_lines, current_date, stats, non_compliant,
                   message_ids, start, excel_data>>

\* parse_member_list returns; its local lines go out of scope.
RosterDone ==
    /\ pc = "roster"
    /\ pc' = "scan"
    /\ roster_lines' = << >>
    /\ UNCHANGED <<log_lines, members, current_date, warnings, stats,
                   non_compliant, message_ids, start, excel_data>>

(***************************************************************************)
(* parse_practice_records: one iteration of the loop over lines.           *)
(***************************************************************************)
AppendRecord(dict, id, rec) ==
    [dict EXCEPT ![KeyIndex(dict, id)].practice_records = Append(@, rec)]

\* An unknown id gets a member of its own.
ScanMembers_Phantom(dict, date, line) ==
    IF line.blank \/ line.hdr \/ line.hash \/ line.ex \/ ~line.rec THEN dict
    ELSE AppendRecord(IF HasKey(dict, line.id) THEN dict
                      ELSE Append(dict, Member(line.id, "")),
                      line.id,
                      [minutes |-> line.minutes, content |-> line.content, date |-> date])

ScanMembers(dict, date, line) ==
    IF line.blank THEN dict
    ELSE IF line.hdr THEN dict
    ELSE IF line.hash THEN dict
    ELSE IF line.ex THEN dict
    ELSE IF line.rec
    THEN IF HasKey(dict, line.id)
         THEN AppendRecord(dict, line.id,
                  [minutes |-> line.minutes, content |-> line.content, date |-> date])
         ELSE dict
    ELSE dict

\* Only the first header of the log sets the label.
ScanDate_Sticky(date, line) ==
    IF ~line.blank /\ line.hdr /\ date = NoLabel THEN Label(line.hm, line.hd) ELSE date

\* A line that matches nothing clears the label.
ScanDate_ResetOnUnparsed(date, line) ==
    IF ~line.blank /\ line.hdr THEN Label(line.hm, line.hd)
    ELSE IF ~line.blank /\ ~line.hash /\ ~line.ex /\ ~line.rec THEN NoLabel
    ELSE date

ScanDate(date, line) ==
    IF ~line.blank /\ line.hdr THEN Label(line.hm, line.hd) ELSE date

ScanWarnings(dict, line) ==
    IF line.blank \/ line.hdr \/ line.hash \/ line.ex THEN << >>
    ELSE IF line.rec
    THEN IF HasKey(dict, line.id) THEN << >> ELSE << "member_id_not_found" >>
    ELSE << "could_not_parse_line" >>

ScanLine(alphabet) ==
    /\ pc = "scan"
    /\ Len(log_lines) < MaxLogLines
    /\ \E line \in alphabet :
        /\ log_lines' = Append(log_lines, line)
        /\ members' = ScanMembers(members, current_date, line)
        /\ current_date' = ScanDate(current_date, line)
        /\ warnings' = warnings \o ScanWarnings(members, line)
    /\ UNCHANGED <<pc, roster_lines, stats, non_compliant, message_ids,
                   start, excel_data>>

ScanDone ==
    /\ pc = "scan"
    /\ pc' = "stats"
    /\ UNCHANGED <<roster_lines, log_lines, members, current_date, warnings,
                   stats, non_compliant, message_ids, start, excel_data>>


(***************************************************************************)
(* calculate_statistics.                                                   *)
(***************************************************************************)
RECURSIVE SumMinutes(_)
SumMinutes(records) ==
    IF records = << >> THEN 0
    ELSE records[1].minutes + SumMinutes(Tail(records))

\* Days counted as distinct date labels.
StatRow_DistinctDates(member) ==
    [id |-> member.id,
     total_minutes |-> SumMinutes(member.practice_records),
     days |-> Cardinality({ member.practice_records[i].date :
                              i \in DOMAIN member.practice_records }),
     rank |-> 0,
     daily_records |-> member.practice_records]

\* The tuple appended to stats, before ranking (rank 0).
StatRow(member) ==
    [id |-> member.id,
     total_minutes |-> SumMinutes(member.practice_records),
     days |-> Len(member.practice_records),
     rank |-> 0,
     daily_records |-> member.practice_records]

\* {k: v for k, v in members.items() if not v.status}
RECURSIVE RequiredMembers(_)
RequiredMembers(dict) ==
    IF dict = << >> THEN << >>
    ELSE IF dict[1].status = ""
         THEN << dict[1] >> \o RequiredMembers(Tail(dict))
         ELSE RequiredMembers(Tail(dict))

\* stats.sort(key=lambda x: x[2], reverse=True): a stable sort, rows of equal
\* total_minutes keep their order.  One row is inserted before the first row
\* of strictly smaller total.
InsertDescending(sorted, row) ==
    LET smaller == { i \in 1..Len(sorted) : sorted[i].total_minutes < row.total_minutes }
        at == IF smaller = {} THEN Len(sorted) + 1
              ELSE CHOOSE i \in smaller : \A j \in smaller : i <= j
    IN SubSeq(sorted, 1, at - 1) \o << row >> \o SubSeq(sorted, at, Len(sorted))

RECURSIVE SortDescending(_, _)
SortDescending(sorted, rows) ==
    IF rows = << >> THEN sorted
    ELSE SortDescending(InsertDescending(sorted, rows[1]), Tail(rows))

\* previous_minutes = None
None == -1

\* Dense ranking: the next lower total takes the next rank.
RankAt_Dense(i, stat, current_rank, previous_minutes) ==
    IF previous_minutes = None THEN 1
    ELSE IF stat.total_minutes < previous_minutes THEN current_rank + 1
    ELSE current_rank

\* The branch of the ranking loop: the rank given to the row at 1-based
\* position i.
RankAt(i, stat, current_rank, previous_minutes) ==
    IF previous_minutes = None \/ stat.total_minutes < previous_minutes
    THEN i
    ELSE current_rank

RECURSIVE AssignRanks(_, _, _, _)
AssignRanks(rows, i, current_rank, previous_minutes) ==
    IF i > Len(rows) THEN rows
    ELSE LET rank == RankAt(i, rows[i], current_rank, previous_minutes)
         IN AssignRanks([rows EXCEPT ![i].rank = rank], i + 1, rank,
                        rows[i].total_minutes)

calculate_statistics(dict) ==
    LET required == RequiredMembers(dict)
        rows == [i \in 1..Len(required) |-> StatRow(required[i])]
    IN AssignRanks(SortDescending(<< >>, rows), 1, 1, None)

CalculateStatistics ==
    /\ pc = "stats"
    /\ stats' = calculate_statistics(members)
    /\ pc' = "non_compliant"
    /\ UNCHANGED <<roster_lines, log_lines, members, current_date, warnings,
                   non_compliant, message_ids, start, excel_data>>

(***************************************************************************)
(* find_non_compliant_members.                                             *)
(***************************************************************************)
\* Either threshold missed.
IsNonCompliant_Either(member) ==
    /\ member.status = ""
    /\ (SumMinutes(member.practice_records) < MinMinutes
          \/ Len(member.practice_records) < MinDays)

IsNonCompliant(member) ==
    /\ member.status = ""
    /\ SumMinutes(member.practice_records) < MinMinutes
    /\ Len(member.practice_records) < MinDays

RECURSIVE find_non_compliant_members(_)
find_non_compliant_members(dict) ==
    IF dict = << >> THEN << >>
    ELSE IF IsNonCompliant(dict[1])
         THEN << dict[1].id >> \o find_non_compliant_members(Tail(dict))
         ELSE find_non_compliant_members(Tail(dict))

FindNonCompliant ==
    /\ pc = "non_compliant"
    /\ non_compliant' = find_non_compliant_members(members)
    /\ pc' = "warn"
    /\ UNCHANGED <<roster_lines, log_lines, members, current_date, warnings,
                   stats, message_ids, start, excel_data>>

(***************************************************************************)
(* generate_warning_message: the ids it joins into the message.            *)
(***************************************************************************)
InsertAscending(sorted, x) ==
    LET greater == { i \in 1..Len(sorted) : sorted[i] > x }
        at == IF greater = {} THEN Len(sorted) + 1
              ELSE CHOOSE i \in greater : \A j \in greater : i <= j
    IN SubSeq(sorted, 1, at - 1) \o << x >> \o SubSeq(sorted, at, Len(sorted))

RECURSIVE SortAscending(_, _)
SortAscending(sorted, xs) ==
    IF xs = << >> THEN sorted
    ELSE SortAscending(InsertAscending(sorted, xs[1]), Tail(xs))

\* The ids joined as handed over.
generate_warning_message_Unsorted(ids) == ids

generate_warning_message(ids) == SortAscending(<< >>, ids)

\* process_data hands non_compliant, as find_non_compliant_members
\* returned it, to generate_warning_message.
GenerateWarningMessage ==
    /\ pc = "warn"
    /\ message_ids' = generate_warning_message(non_compliant)
    /\ pc' = "grid"
    /\ UNCHANGED <<roster_lines, log_lines, members, current_date, warnings,
                   stats, non_compliant, start, excel_data>>

(***************************************************************************)
(* process_data: the reporting window and the rows of excel_data.          *)
(***************************************************************************)
\* int() of a captured digit string.
RECURSIVE ToInt(_)
ToInt(digits) ==
    IF digits = << >> THEN 0
    ELSE 10 * ToInt(SubSeq(digits, 1, Len(digits) - 1)) + digits[Len(digits)]

\* re.search(r'(\d+)月(\d+)日', date)
DateMatches(date) == date.m # NoDigits /\ date.d # NoDigits

EndDayInt(start_day_int) ==
    IF start_day_int + 6 > days_in_month
    THEN start_day_int + 6 - days_in_month
    ELSE start_day_int + 6

EndMonth(start_month, start_day_int) ==
    IF start_day_int + 6 > days_in_month THEN start_month + 1 ELSE start_month

\* The key <<month, day>> of the slot at day_offset.
SlotKey(start_month, start_day_int, day_offset) ==
    LET current_day == start_day_int + day_offset
    IN IF current_day <= days_in_month
       THEN << start_month, current_day >>
       ELSE << EndMonth(start_month, start_day_int), current_day - days_in_month >>

EmptyCell == [minutes |-> 0, content |-> ""]

InitialCells(start_month, start_day_int) ==
    [ key \in { SlotKey(start_month, start_day_int, k) : k \in 0..(WindowDays - 1) }
        |-> EmptyCell ]

\* row[key] = value on a dict: an absent key is added.
CellSet(cells, key, value) ==
    [ k \in DOMAIN cells \cup { key } |-> IF k = key THEN value ELSE cells[k] ]

\* Only records of the end month are placed.
FillRecord_EndMonthOnly(cells, record, start_month, start_day_int) ==
    IF DateMatches(record.date)
    THEN LET record_month == ToInt(record.date.m)
             record_day == ToInt(record.date.d)
             day_offset == record_day - start_day_int
         IN IF record_month = EndMonth(start_month, start_day_int)
                /\ 0 <= day_offset /\ day_offset < WindowDays
            THEN CellSet(cells, << record_month, record_day >>,
                         [minutes |-> record.minutes, content |-> record.content])
            ELSE cells
    ELSE cells

\* One iteration of "for record in daily_records".
FillRecord(cells, record, start_month, start_day_int) ==
    IF DateMatches(record.date)
    THEN LET record_month == ToInt(record.date.m)
             record_day == ToInt(record.date.d)
             day_offset == record_day - start_day_int
         IN IF record_month = start_month
                \/ record_month = EndMonth(start_month, start_day_int)
            THEN IF 0 <= day_offset /\ day_offset < WindowDays
                 THEN CellSet(cells, << record_month, record_day >>,
                              [minutes |-> record.minutes, content |-> record.content])
                 ELSE cells
            ELSE cells
    ELSE cells

RECURSIVE FillRecords(_, _, _, _)
FillRecords(cells, records, start_month, start_day_int) ==
    IF records = << >> THEN cells
    ELSE FillRecords(FillRecord(cells, records[1], start_month, start_day_int),
                     Tail(records), start_month, start_day_int)

GridRow(stat, start_month, start_day_int) ==
    [id |-> stat.id,
     cells |-> FillRecords(InitialCells(start_month, start_day_int),
                           stat.daily_records, start_month, start_day_int),
     total_minutes |-> stat.total_minutes,
     days |-> stat.days,
     rank |-> stat.rank]

\* The start date is read by the window arithmetic and the grid loop only.
BuildGrid ==
    /\ pc = "grid"
    /\ \E date \in StartDates :
        /\ start' = date
        /\ excel_data' = [i \in 1..Len(stats) |-> GridRow(stats[i], date[1], date[2])]
    /\ pc' = "done"
    /\ UNCHANGED <<roster_lines, log_lines, members, current_date, warnings,
                   stats, non_compliant, message_ids>>

(***************************************************************************)
(* Specifications.                                                         *)
(***************************************************************************)
Init ==
    /\ pc = "roster"
    /\ roster_lines = << >>
    /\ log_lines = << >>
    /\ members = << >>
    /\ current_date = NoLabel
    /\ warnings = << >>
    /\ stats = << >>
    /\ non_compliant = << >>
    /\ message_ids = << >>
    /\ start = << 0, 0 >>
    /\ excel_data = << >>

\* The roster loader on every kind of roster line.
NextRoster ==
    \/ LoadRosterLine(RosterLines)
    \/ RosterDone

SpecRoster == Init /\ [][NextRoster]_vars

\* The log scanner on every kind of log line, over rosters of up to two ids.
NextScan ==
    \/ LoadRosterLine(ValidRosterLines(FewMemberIds))
    \/ RosterDone
    \/ ScanLine(LogLines)
    \/ ScanDone

SpecScan == Init /\ [][NextScan]_vars

\* Aggregation, ranking and non-compliance over rosters of up to three ids.
NextRank ==
    \/ LoadRosterLine(ValidRosterLines(MemberIds))
    \/ RosterDone
    \/ ScanLine(RecordLines(MemberIds))
    \/ ScanDone
    \/ CalculateStatistics
    \/ FindNonCompliant
    \/ GenerateWarningMessage

SpecRank == Init /\ [][NextRank]_vars

\* The whole run on dated records.
Next ==
    \/ LoadRosterLine(ValidRosterLines(FewMemberIds))
    \/ RosterDone
    \/ ScanLine(DatedLogLines)
    \/ ScanDone
    \/ CalculateStatistics
    \/ FindNonCompliant
    \/ GenerateWarningMessage
    \/ BuildGrid

Spec == Init /\ [][Next]_vars

(***************************************************************************)
(* Properties.  The helpers below restate the documents independently of   *)
(* the scanner: which lines are record entries, and under which header.    *)
(***************************************************************************)
AfterStatistics == pc \in {"non_compliant", "warn", "grid", "done"}
AfterNonCompliant == pc \in {"warn", "grid", "done"}
AfterWarning == pc \in {"grid", "done"}

Range(seq) == { seq[i] : i \in DOMAIN seq }
NoDuplicates(seq) == \A i, j \in DOMAIN seq : seq[i] = seq[j] => i = j
Ascending(seq) == \A i, j \in DOMAIN seq : i < j => seq[i] < seq[j]
Keys(dict) == { dict[i].id : i \in DOMAIN dict }

RECURSIVE SumOver(_, _)
SumOver(f, indices) ==
    IF indices = {} THEN 0
    ELSE LET i == CHOOSE i \in indices : TRUE
         IN f[i].minutes + SumOver(f, indices \ {i})

\* C1: the rows of calculate_statistics are ordered by total minutes,
\* non-increasing, and the rank of a row is 1 plus the number of rows of
\* strictly greater total (standard competition ranking).
C1_CompetitionRanking ==
    AfterStatistics =>
        /\ \A i, j \in DOMAIN stats :
              i < j => stats[i].total_minutes >= stats[j].total_minutes
        /\ \A i \in DOMAIN stats :
              stats[i].rank =
                  1 + Cardinality({ j \in DOMAIN stats :
                                      stats[j].total_minutes > stats[i].total_minutes })

\* Two rows tied at the top and a third below them: ranks 1, 1, 3.
C1_Witness ==
    /\ AfterStatistics
    /\ Len(stats) = 3
    /\ stats[1].total_minutes = stats[2].total_minutes
    /\ stats[3].total_minutes < stats[2].total_minutes
    /\ << stats[1].rank, stats[2].rank, stats[3].rank >> = << 1, 1, 3 >>

\* C2: find_non_compliant_members returns exactly the ids of the members
\* of empty status with fewer than 120 minutes in total and fewer than 2
\* records.
C2_NonCompliantExactly ==
    AfterNonCompliant =>
        Range(non_compliant) =
            { members[k].id : k \in
                { k \in DOMAIN members :
                    /\ members[k].status = ""
                    /\ SumOver(members[k].practice_records,
                               DOMAIN members[k].practice_records) < 120
                    /\ Len(members[k].practice_records) < 2 } }

\* 119 minutes in 2 records is compliant, 100 minutes in 1 record is not,
\* and an exempt member without any record is not returned.
C2_Witness ==
    /\ AfterNonCompliant
    /\ \E a, b, c \in DOMAIN members :
        /\ members[a].status = ""
        /\ Len(members[a].practice_records) = 2
        /\ SumOver(members[a].practice_records, 1..2) = 119
        /\ members[a].id \notin Range(non_compliant)
        /\ members[b].status = ""
        /\ Len(members[b].practice_records) = 1
        /\ members[b].practice_records[1].minutes = 100
        /\ members[b].id \in Range(non_compliant)
        /\ members[c].status # ""
        /\ members[c].practice_records = << >>
        /\ members[c].id \notin Range(non_compliant)

\* C3 as stated: the list handed to generate_warning_message has no
\* duplicate id and is sorted ascending at the hand-off.
C3_HandedOverSorted ==
    pc = "warn" => NoDuplicates(non_compliant) /\ Ascending(non_compliant)

\* C3 as amended: the list handed over has no duplicate id and follows the
\* roster's insertion order; generate_warning_message sorts it ascending
\* for the message, which names the same ids.
C3_RosterOrderThenSortedInMessage ==
    /\ AfterNonCompliant =>
          /\ NoDuplicates(non_compliant)
          /\ \A i, j \in DOMAIN non_compliant :
                i < j => KeyIndex(members, non_compliant[i])
                           < KeyIndex(members, non_compliant[j])
    /\ AfterWarning =>
          /\ Ascending(message_ids)
          /\ Range(message_ids) = Range(non_compliant)
          /\ Len(message_ids) = Len(non_compliant)

\* A roster listing id 2 before id 1, both non-compliant.
C3_Witness ==
    /\ AfterWarning
    /\ non_compliant = << 2, 1 >>
    /\ message_ids = << 1, 2 >>

\* Kinds of log line, in the order the scanner tests them.
IsHeaderLine(line) == ~line.blank /\ line.hdr
IsCommentLine(line) == ~line.blank /\ ~line.hdr /\ line.hash
IsExampleLine(line) == ~line.blank /\ ~line.hdr /\ ~line.hash /\ line.ex
IsRecordEntry(line) ==
    ~line.blank /\ ~line.hdr /\ ~line.hash /\ ~line.ex /\ line.rec
IsUnparsedLine(line) ==
    ~line.blank /\ ~line.hdr /\ ~line.hash /\ ~line.ex /\ ~line.rec

Scanning == pc \in {"scan", "stats"}
LineRead == log_lines'[Len(log_lines')]

\* C4: a record entry whose member id is not a key of the roster mapping
\* emits one diagnostic, appends no record, adds no key, leaves the date
\* label alone, and the scan goes on.
C4_UnknownIdDiscarded ==
    [][ (pc = "scan" /\ Len(log_lines') = Len(log_lines) + 1
           /\ IsRecordEntry(LineRead) /\ LineRead.id \notin Keys(members))
        => /\ members' = members
           /\ current_date' = current_date
           /\ warnings' = Append(warnings, "member_id_not_found")
           /\ pc' = "scan" ]_vars

\* An entry of an unknown id was discarded and a later entry of a known id
\* was appended.
C4_Witness ==
    /\ pc = "scan"
    /\ \E i, j \in DOMAIN log_lines :
        /\ i < j
        /\ IsRecordEntry(log_lines[i]) /\ log_lines[i].id \notin Keys(members)
        /\ IsRecordEntry(log_lines[j]) /\ log_lines[j].id \in Keys(members)
    /\ \E k \in DOMAIN members : Len(members[k].practice_records) = 1
    /\ warnings = << "member_id_not_found" >>

\* The label of the most recent header line before line i.
LabelBefore(log, i) ==
    LET headers == { j \in 1..(i - 1) : IsHeaderLine(log[j]) }
    IN IF headers = {} THEN NoLabel
       ELSE LET j == CHOOSE j \in headers : \A h \in headers : h <= j
            IN Label(log[j].hm, log[j].hd)

RECURSIVE ExpectedRecords(_, _, _)
ExpectedRecords(log, id, n) ==
    IF n = 0 THEN << >>
    ELSE ExpectedRecords(log, id, n - 1)
           \o (IF IsRecordEntry(log[n]) /\ log[n].id = id
               THEN << [minutes |-> log[n].minutes, content |-> log[n].content,
                        date |-> LabelBefore(log, n)] >>
               ELSE << >>)

\* C5: at every point of the scan the records of a member are its record
\* entries read so far, in order, each under the label of the most recent
\* header line before it (the empty label when there is none); so a header
\* line appends nothing and later headers change no label already given.
C5_LabelOfLatestHeader ==
    Scanning =>
        \A k \in DOMAIN members :
            members[k].practice_records
                = ExpectedRecords(log_lines, members[k].id, Len(log_lines))

\* A record keeps the label of its header after a later header was read.
C5_Witness ==
    /\ pc = "scan"
    /\ Len(log_lines) = 3
    /\ IsHeaderLine(log_lines[1]) /\ IsRecordEntry(log_lines[2]) /\ IsHeaderLine(log_lines[3])
    /\ current_date = Label(log_lines[3].hm, log_lines[3].hd)
    /\ \E k \in DOMAIN members :
        /\ Len(members[k].practice_records) = 1
        /\ members[k].practice_records[1].date = Label(log_lines[1].hm, log_lines[1].hd)
        /\ members[k].practice_records[1].date # current_date

IsNeutralLine(line) ==
    IsCommentLine(line) \/ IsExampleLine(line) \/ IsUnparsedLine(line)

RECURSIVE WithoutNeutral(_)
WithoutNeutral(lines) ==
    IF lines = << >> THEN << >>
    ELSE (IF IsNeutralLine(lines[1]) THEN << >> ELSE << lines[1] >>)
           \o WithoutNeutral(Tail(lines))

\* The scan of a whole log from a given roster.
RECURSIVE Replay(_, _, _)
Replay(dict, date, lines) ==
    IF lines = << >> THEN [members |-> dict, date |-> date]
    ELSE Replay(ScanMembers(dict, date, lines[1]), ScanDate(date, lines[1]),
                Tail(lines))

EmptyRecords(dict) == [i \in DOMAIN dict |-> [dict[i] EXCEPT !.practice_records = << >>]]

\* C6: comment, example and unparseable lines change neither the date
\* label nor any member's records: members and label are what the scan of
\* the log without these lines gives, and the scan goes on after them; each
\* unparseable line, and no comment or example line, emits a diagnostic.
C6_NeutralLinesAsIfAbsent ==
    Scanning =>
        LET without == Replay(EmptyRecords(members), NoLabel, WithoutNeutral(log_lines))
        IN /\ members = without.members
           /\ current_date = without.date
           /\ Cardinality({ i \in DOMAIN warnings : warnings[i] = "could_not_parse_line" })
                = Cardinality({ i \in DOMAIN log_lines : IsUnparsedLine(log_lines[i]) })

\* An unparseable line between a header and a record of a known member.
C6_Witness ==
    /\ pc = "scan"
    /\ Len(log_lines) = 3
    /\ IsHeaderLine(log_lines[1]) /\ IsUnparsedLine(log_lines[2]) /\ IsRecordEntry(log_lines[3])
    /\ warnings = << "could_not_parse_line" >>
    /\ \E k \in DOMAIN members :
        /\ Len(members[k].practice_records) = 1
        /\ members[k].practice_records[1].date = Label(log_lines[1].hm, log_lines[1].hd)

IsRejectedRosterLine(line) == ~line.blank /\ (line.nparts < 3 \/ ~line.idOk)

\* C7: every rejected roster line (fewer than 3 fields, or an id that is no
\* integer) is kept out of the mapping and emits exactly one diagnostic,
\* and the other lines are loaded.
C7_RejectedLineDiagnosed ==
    pc = "roster" =>
        /\ Len(warnings)
             = Cardinality({ i \in DOMAIN roster_lines : IsRejectedRosterLine(roster_lines[i]) })
        /\ Keys(members)
             = { roster_lines[i].id : i \in
                   { i \in DOMAIN roster_lines :
                       ~roster_lines[i].blank /\ ~IsRejectedRosterLine(roster_lines[i]) } }

\* The positions in the log of the record entries of one member.
EntriesOf(log, id) == { i \in DOMAIN log : IsRecordEntry(log[i]) /\ log[i].id = id }

RequiredIds == { members[k].id : k \in { k \in DOMAIN members : members[k].status = "" } }

\* C8: the row of every required member holds the exact sum of the minutes
\* of the record entries of the log that carry its id, and their number as
\* days, whatever the labels of these entries are.
C8_TotalsOverAllEntries ==
    AfterStatistics =>
        /\ { stats[i].id : i \in DOMAIN stats } = RequiredIds
        /\ Len(stats) = Cardinality(RequiredIds)
        /\ \A i \in DOMAIN stats :
            /\ stats[i].total_minutes = SumOver(log_lines, EntriesOf(log_lines, stats[i].id))
            /\ stats[i].days = Cardinality(EntriesOf(log_lines, stats[i].id))

\* Two entries of one member under the same header, 3月25日.
C8_Witness ==
    /\ AfterStatistics
    /\ \E i \in DOMAIN stats :
        /\ stats[i].days = 2
        /\ stats[i].total_minutes = 119
        /\ stats[i].daily_records[1].date = Label(<< 3 >>, << 2, 5 >>)
        /\ stats[i].daily_records[2].date = Label(<< 3 >>, << 2, 5 >>)

\* The positions, among the records of a row's member, of the records
\* dated month/day.
DatedAt(records, month, day) ==
    { i \in DOMAIN records :
        /\ records[i].date # NoLabel
        /\ ToInt(records[i].date.m) = month
        /\ ToInt(records[i].date.d) = day }

CellOf(record) == [minutes |-> record.minutes, content |-> record.content]
LastOf(indices) == CHOOSE i \in indices : \A j \in indices : j <= i
RecordsOfRow(row) == members[KeyIndex(members, row.id)].practice_records

\* C9: one grid row per required member; every row has the 7 slots; a slot
\* of the start month at offset k holds the (last) record of the member
\* dated startDay + k in the start month, and 0 and "" without one; a slot
\* changed from 0 and "" has a record of its date at an offset in [0,6];
\* the row's total and days count every record of the member.
C9_GridRows ==
    pc = "done" =>
        /\ { excel_data[i].id : i \in DOMAIN excel_data } = RequiredIds
        /\ Len(excel_data) = Cardinality(RequiredIds)
        /\ \A i \in DOMAIN excel_data :
            LET row == excel_data[i]
                records == RecordsOfRow(row)
            IN /\ row.total_minutes = SumOver(records, DOMAIN records)
               /\ row.days = Len(records)
               /\ \A k \in 0..6 :
                    LET day == start[2] + k
                        key == IF day <= 31 THEN << start[1], day >>
                               ELSE << start[1] + 1, day - 31 >>
                        dated == DatedAt(records, key[1], key[2])
                    IN /\ key \in DOMAIN row.cells
                       /\ day <= 31 =>
                            row.cells[key] = IF dated = {} THEN EmptyCell
                                             ELSE CellOf(records[LastOf(dated)])
                       /\ row.cells[key] # EmptyCell =>
                            \E r \in dated : ToInt(records[r].date.d) - start[2] \in 0..6

\* Start 2025-03-17: a record under 03月20日 fills the slot at offset 3.
C9_Witness ==
    /\ pc = "done"
    /\ start = << 3, 17 >>
    /\ \E i \in DOMAIN excel_data :
        /\ excel_data[i].days = 1
        /\ excel_data[i].total_minutes = 100
        /\ excel_data[i].cells[<< 3, 20 >>] = [minutes |-> 100, content |-> "etude"]
        /\ \A k \in (0..6) \ {3} : excel_data[i].cells[<< 3, 17 + k >>] = EmptyCell

\* C10: when the window rolls over, the slots are those of the start month
\* up to day 31 and those of the following month after it, and a record of
\* a required member dated in a slot of the following month is in that slot.
C10_RolloverRecordInGrid ==
    (pc = "done" /\ start[2] + 6 > 31) =>
        \A i \in DOMAIN excel_data :
            LET row == excel_data[i]
                records == RecordsOfRow(row)
            IN \A k \in 0..6 :
                 LET day == start[2] + k
                     key == IF day <= 31 THEN << start[1], day >>
                            ELSE << start[1] + 1, day - 31 >>
                     dated == DatedAt(records, key[1], key[2])
                 IN /\ key \in DOMAIN row.cells
                    /\ (day > 31 /\ dated # {}) =>
                          row.cells[key] = CellOf(records[LastOf(dated)])

=============================================================================
